---- MODULE Spec2Model ----
(***************************************************************************)
(* Student Productivity API (src/main.py): the text heuristics             *)
(* (_simple_summarize, _make_exam_notes, _generate_flashcards,             *)
(* _extract_tasks_and_deadlines), the request handlers built on them and   *)
(* the document store they write to.                                       *)
(*                                                                         *)
(* Python str values are TLA+ strings; a character is a string of length   *)
(* 1.  Optional[T] is a sequence of length at most 1: None is <<>>.        *)
(* Texts range over the ASCII letters, digits, punctuation, " ", "\t" and  *)
(* "\n" (the only white space and the only line break of the alphabet).    *)
(***************************************************************************)
EXTENDS Integers, Sequences, FiniteSets, TLC

VARIABLES db, nreq, resp, call, ret

vars == <<db, nreq, resp, call, ret>>

(***************************************************************************)
(* Python built-ins used by the source                                     *)
(***************************************************************************)

None == <<>>

Some(x) == <<x>>

\* Python truth value of an Optional[str]: None and "" are false
Truthy(o) == o # None /\ o[1] # ""

\* Python truth value of an Optional[int]: None and 0 are false
TruthyInt(o) == o # None /\ o[1] # 0

Ch(s, i) == SubSeq(s, i, i)

MinOf(S) == CHOOSE x \in S : \A y \in S : x <= y

MaxOf(S) == CHOOSE x \in S : \A y \in S : x >= y

Range(q) == {q[i] : i \in 1..Len(q)}

\* F(v), with v evaluated once: a local variable of the source
Let(v, F(_)) == CHOOSE r \in {F(x) : x \in {v}} : TRUE

\* white space of str.split(), str.strip() and the regex class \s
Space == {" ", "\t", "\n"}

\* the look-behind class [.!?]
Punct == {".", "!", "?"}

UpperChars == "ABCDEFGHIJKLMNOPQRSTUVWXYZ"

LowerChars == "abcdefghijklmnopqrstuvwxyz"

LowerChar(c) ==
    LET I == {i \in 1..26 : Ch(UpperChars, i) = c}
    IN  IF I = {} THEN c ELSE Ch(LowerChars, MinOf(I))

RECURSIVE LowerIn(_, _, _)
LowerIn(s, lo, hi) ==
    IF lo > hi THEN ""
    ELSE IF lo = hi THEN LowerChar(Ch(s, lo))
    ELSE LowerIn(s, lo, (lo + hi) \div 2) \o LowerIn(s, (lo + hi) \div 2 + 1, hi)

\* str.lower()
Lower(s) == LowerIn(s, 1, Len(s))

\* sub in s
Contains(s, sub) ==
    \E i \in 1..(Len(s) - Len(sub) + 1) : SubSeq(s, i, i + Len(sub) - 1) = sub

\* any(k in s for k in ks)
ContainsAny(s, ks) == \E k \in ks : Contains(s, k)

\* first index >= pos whose character is (want) or is not (~want) in chars; Len(s)+1 if none
FirstAt(s, pos, chars, want) ==
    LET I == {i \in pos..Len(s) : (Ch(s, i) \in chars) = want}
    IN  IF I = {} THEN Len(s) + 1 ELSE MinOf(I)

\* s.strip(chars)
Strip(s, chars) ==
    LET keep == {i \in 1..Len(s) : Ch(s, i) \notin chars}
    IN  IF keep = {} THEN "" ELSE SubSeq(s, MinOf(keep), MaxOf(keep))

\* len(s.split()): the number of places where a word starts
WordCount(s) ==
    Cardinality({i \in 1..Len(s) :
                   Ch(s, i) \notin Space /\ (i = 1 \/ Ch(s, i - 1) \in Space)})

RECURSIVE WordsIn(_, _, _)
\* the words of s[lo..hi], split at the white space nearest its middle
WordsIn(s, lo, hi) ==
    LET W   == {i \in lo..hi : Ch(s, i) \in Space}
        mid == (lo + hi) \div 2
        far(i) == IF i >= mid THEN i - mid ELSE mid - i
        m   == CHOOSE i \in W : \A j \in W : far(i) <= far(j)
    IN  IF lo > hi THEN <<>>
        ELSE IF W = {} THEN <<SubSeq(s, lo, hi)>>
        ELSE WordsIn(s, lo, m - 1) \o WordsIn(s, m + 1, hi)

\* s.split()
Words(s) == WordsIn(s, 1, Len(s))

\* where the leftmost match of (?<=[behind])[run]+ at or after pos starts (behind = {}:
\* no look-behind); Len(s)+1 if there is none
MatchAt(s, pos, behind, run) ==
    LET M == {i \in pos..Len(s) :
                /\ Ch(s, i) \in run
                /\ behind # {} => (i >= 2 /\ Ch(s, i - 1) \in behind)}
    IN  IF M = {} THEN Len(s) + 1 ELSE MinOf(M)

RECURSIVE ReSplitFrom(_, _, _, _)
\* re.split of such a pattern: the pieces of s from pos on
ReSplitFrom(s, pos, behind, run) ==
    LET st == MatchAt(s, pos, behind, run)
        en == FirstAt(s, st, run, FALSE)
    IN  IF st > Len(s) THEN <<SubSeq(s, pos, Len(s))>>
        ELSE <<SubSeq(s, pos, st - 1)>> \o ReSplitFrom(s, en, behind, run)

\* re.split(r"(?<=[.!?])\s+", s)
SplitSentences(s) == ReSplitFrom(s, 1, Punct, Space)

\* re.split(r"\n+", s)
SplitNewlines(s) == ReSplitFrom(s, 1, {}, {"\n"})

RECURSIVE LinesFrom(_, _)
LinesFrom(s, pos) ==
    LET nl == FirstAt(s, pos, {"\n"}, TRUE)
    IN  IF pos > Len(s) THEN <<>>
        ELSE <<SubSeq(s, pos, nl - 1)>> \o LinesFrom(s, nl + 1)

\* s.splitlines()
SplitLines(s) == LinesFrom(s, 1)

RECURSIVE JoinIn(_, _, _, _)
JoinIn(q, sep, lo, hi) ==
    IF lo > hi THEN ""
    ELSE IF lo = hi THEN q[lo]
    ELSE JoinIn(q, sep, lo, (lo + hi) \div 2) \o sep \o JoinIn(q, sep, (lo + hi) \div 2 + 1, hi)

\* sep.join(q)
Join(q, sep) == JoinIn(q, sep, 1, Len(q))

\* q[:n], n of either sign
Slice(q, n) ==
    IF n >= 0 THEN SubSeq(q, 1, IF n < Len(q) THEN n ELSE Len(q))
    ELSE SubSeq(q, 1, IF Len(q) + n > 0 THEN Len(q) + n ELSE 0)

RECURSIVE Rep(_, _)
\* s * k
Rep(s, k) ==
    IF k <= 0 THEN ""
    ELSE IF k = 1 THEN s
    ELSE Rep(s, k \div 2) \o Rep(s, k - k \div 2)

Digits == "0123456789"

RECURSIVE IntToStr(_)
\* str(i), i >= 0
IntToStr(i) ==
    IF i < 10 THEN Ch(Digits, i + 1)
    ELSE IntToStr(i \div 10) \o Ch(Digits, (i % 10) + 1)

(***************************************************************************)
(* _simple_summarize                                                       *)
(***************************************************************************)

SummaryKeywords ==
    {"important", "key", "therefore", "defines", "theorem", "proof", "exam",
     "result", "conclusion"}

KeyPointMax == 200

KeyPointCut == 197

WordsPerMinute == 180

\* sentences = [s.strip() for s in re.split(...) if s.strip()]
StrippedSentences(text) ==
    LET raw == SplitSentences(Strip(text, Space))
    IN  SelectSeq([i \in 1..Len(raw) |-> Strip(raw[i], Space)], LAMBDA s : s # "")

RECURSIVE KeywordPass(_, _, _, _)
\* first loop: sentences holding a keyword, until max_sentences are collected
KeywordPass(sentences, i, key_points, max_sentences) ==
    IF i > Len(sentences) \/ Len(key_points) >= max_sentences THEN key_points
    ELSE KeywordPass(sentences, i + 1,
                     IF ContainsAny(Lower(sentences[i]), SummaryKeywords)
                     THEN Append(key_points, sentences[i]) ELSE key_points,
                     max_sentences)

RECURSIVE FillPass(_, _, _, _)
\* second loop: the sentences not chosen yet, in order
FillPass(sentences, i, key_points, max_sentences) ==
    IF i > Len(sentences) THEN key_points
    ELSE LET kp == IF sentences[i] \notin Range(key_points)
                   THEN Append(key_points, sentences[i]) ELSE key_points
         IN  IF Len(kp) >= max_sentences THEN kp
             ELSE FillPass(sentences, i + 1, kp, max_sentences)

\* KeyPoint cutting at 200 before the ellipsis is added: a variant C4 must tell apart
KeyPointLate(p) ==
    IF Len(p) <= KeyPointMax THEN p ELSE SubSeq(p, 1, KeyPointMax) \o "..."

\* p if len(p) <= 200 else p[:197] + "..."
KeyPoint(p) ==
    IF Len(p) <= KeyPointMax THEN p ELSE SubSeq(p, 1, KeyPointCut) \o "..."

\* max(1, int(len(text.split()) / 180))
ReadingTime(text) ==
    LET m == WordCount(text) \div WordsPerMinute
    IN  IF m > 1 THEN m ELSE 1

SimpleSummarize(text, max_sentences) ==
    LET sentences == StrippedSentences(text)
        first     == KeywordPass(sentences, 1, <<>>, max_sentences)
        all       == IF Len(first) < max_sentences
                     THEN FillPass(sentences, 1, first, max_sentences)
                     ELSE first
        chosen    == Slice(all, max_sentences)
    IN  [content          |-> Join(chosen, " "),
         key_points       |-> [i \in 1..Len(chosen) |-> KeyPoint(chosen[i])],
         reading_time_min |-> ReadingTime(text)]

(***************************************************************************)
(* _make_exam_notes                                                        *)
(***************************************************************************)

NoteKeywords ==
    {"definition", "formula", "step", "theorem", "law", "property", "example:"}

\* the characters of line.strip(...) at line 72 that are in the alphabet (the fourth,
\* U+2022, is no ASCII character)
NoteStripChars == {" ", "-", "\t"}

ShortLineWords == 12

BulletMax == 180

RECURSIVE NotesLoop(_, _, _, _)
NotesLoop(lines, i, bullets, max_points) ==
    IF i > Len(lines) THEN bullets
    ELSE LET line == Strip(lines[i], NoteStripChars)
             b2   == IF \/ ContainsAny(Lower(line), NoteKeywords)
                        \/ WordCount(line) <= ShortLineWords
                     THEN Append(bullets, line) ELSE bullets
         IN  IF line = "" THEN NotesLoop(lines, i + 1, bullets, max_points)
             ELSE IF Len(b2) >= max_points THEN b2
             ELSE NotesLoop(lines, i + 1, b2, max_points)

\* b[:180] + ("..." if len(b) > 180 else "")
Bullet(b) ==
    SubSeq(b, 1, IF Len(b) < BulletMax THEN Len(b) ELSE BulletMax)
        \o (IF Len(b) > BulletMax THEN "..." ELSE "")

MakeExamNotes(text, max_points) ==
    LET picked  == NotesLoop(SplitNewlines(text), 1, <<>>, max_points)
        bullets == IF picked = <<>>
                   THEN Slice(SplitSentences(text), max_points)
                   ELSE picked
    IN  [i \in 1..Len(bullets) |-> Bullet(bullets[i])]

(***************************************************************************)
(* _generate_flashcards                                                    *)
(***************************************************************************)

MinCardWords == 6

QuestionMax == 180

AnswerMax == 300

Prefix(s, n) == SubSeq(s, 1, IF Len(s) < n THEN Len(s) ELSE n)

\* words.index(w)
IndexOf(words, w) == MinOf({i \in 1..Len(words) : words[i] = w})

\* the card of one sentence, <<>> when the sentence gives none
CardOf(s) ==
    LET words       == Words(s)
        idx         == IF "is" \in Range(words) THEN IndexOf(words, "is")
                       ELSE IndexOf(words, "are")
        subject     == Strip(Join(SubSeq(words, 1, idx - 1), " "), {",", " ", "."})
        description == Strip(Join(SubSeq(words, idx + 1, Len(words)), " "), Space)
    IN  IF /\ Len(words) >= MinCardWords
           /\ ("is" \in Range(words) \/ "are" \in Range(words))
           /\ subject # ""
           /\ description # ""
        THEN <<[question |-> Prefix("What is " \o subject \o "?", QuestionMax),
                answer   |-> Prefix(description, AnswerMax)]>>
        ELSE <<>>

RECURSIVE CardsLoop(_, _, _, _)
CardsLoop(sentences, i, cards, n) ==
    IF i > Len(sentences) THEN cards
    ELSE LET c2 == cards \o CardOf(sentences[i])
         IN  IF Len(c2) >= n THEN c2 ELSE CardsLoop(sentences, i + 1, c2, n)

\* FillerCards one card short: a variant C1 must tell apart
FillerCardsShort(have, n) ==
    IF have < n
    THEN [i \in 1..(n - have - 1) |->
            [question |-> "Key point " \o IntToStr(i) \o "?",
             answer   |-> "Review your notes for this topic."]]
    ELSE <<>>

\* the generic cards appended when len(cards) < n
FillerCards(have, n) ==
    IF have < n
    THEN [i \in 1..(n - have) |->
            [question |-> "Key point " \o IntToStr(i) \o "?",
             answer   |-> "Review your notes for this topic."]]
    ELSE <<>>

GenerateFlashcards(text, n) ==
    LET cards == CardsLoop(SplitSentences(text), 1, <<>>, n)
    IN  Slice(cards \o FillerCards(Len(cards), n), n)

(***************************************************************************)
(* _extract_tasks_and_deadlines                                            *)
(*                                                                         *)
(* dateutil's parser is outside the repository: what it returns for each   *)
(* call is an input, drawn from ParseOutcomes.  Times are hours relative   *)
(* to the datetime.now() of line 133.                                      *)
(***************************************************************************)

ActionVerbs ==
    {"submit", "finish", "complete", "read", "solve", "revise", "review",
     "write", "prepare"}

ExamWords == {"exam", "midterm", "final"}

TitleMax == 120

OneDay == 24

\* dateparser.parse raised
ParseFailed == [ok |-> FALSE, at |-> 0, aware |-> FALSE]

Parsed(at, aware) == [ok |-> TRUE, at |-> at, aware |-> aware]

ParseOutcomes ==
    {ParseFailed, Parsed(OneDay, TRUE)}
        \cup {Parsed(at, FALSE) : at \in {0 - 2 * OneDay, 0 - OneDay - 1, 0 - OneDay, 0, OneDay}}

\* due.isoformat()
IsoFormat(at) == <<"iso", at>>

\* DueOf without the staleness test: a variant C5 must tell apart
DueOfAnyDate(outcome) ==
    IF ~outcome.ok THEN None
    ELSE IF outcome.aware THEN None
    ELSE Some(outcome.at)

\* lines 129-136: the parse, the staleness test, the except clause.  Comparing an
\* offset-aware datetime with datetime.now() raises TypeError, which is caught.
DueOf(outcome) ==
    IF ~outcome.ok THEN None
    ELSE IF outcome.aware THEN None
    ELSE IF outcome.at < 0 - OneDay THEN None
    ELSE Some(outcome.at)

HasVerb(l) == ContainsAny(Lower(l), ActionVerbs)

\* PriorityOf matching the exam words case-sensitively: a variant C6 must tell apart
PriorityOfCaseSensitive(l) == IF ContainsAny(l, ExamWords) THEN "high" ELSE "medium"

PriorityOf(l) == IF ContainsAny(Lower(l), ExamWords) THEN "high" ELSE "medium"

TaskOf(l, outcome) ==
    LET due == DueOf(outcome)
    IN  [title    |-> Prefix(l, TitleMax),
         due_date |-> IF due # None THEN Some(IsoFormat(due[1])) ELSE None,
         status   |-> "todo",
         priority |-> PriorityOf(l)]

RECURSIVE TasksLoop(_, _, _, _)
\* parses[k] is what the k-th call of dateparser.parse gives
TasksLoop(lines, i, tasks, parses) ==
    IF i > Len(lines) THEN tasks
    ELSE LET l == Strip(lines[i], Space)
         IN  IF l = "" \/ ~HasVerb(l) THEN TasksLoop(lines, i + 1, tasks, parses)
             ELSE TasksLoop(lines, i + 1,
                            Append(tasks, TaskOf(l, parses[Len(tasks) + 1])), parses)

ExtractTasksAndDeadlines(text, parses) ==
    TasksLoop(SplitLines(text), 1, <<>>, parses)

\* the number of dateparser.parse calls text leads to
ParseCalls(text) ==
    Cardinality({i \in 1..Len(SplitLines(text)) : HasVerb(Strip(SplitLines(text)[i], Space))})

(***************************************************************************)
(* The texts the functions are applied to                                  *)
(***************************************************************************)

FnTexts ==
    << "",
       "The key result is a very important theorem. Dogs are loyal and kind pets! Why? Short one.",
       "exam " \o Rep("x", KeyPointMax) \o ". B.",
       Rep("words ", 40),
       "- Definition: a set is a collection of distinct things\n\n\t- short line\none two three four five six seven eight nine ten eleven twelve thirteen\n",
       "is this a very good thing. , is a b c d. a b c d e is",
       "A cat, is a small furry animal. Cats are nice. Big dogs are not so small, are they?",
       "Submit essay by Friday\n\nbuy milk\nPrepare for the FINAL\n  \nthread the needle",
       Rep("a", KeyPointMax - 1) \o ". " \o Rep("b", KeyPointMax) \o ".",
       Rep("c", BulletMax) \o "\n" \o Rep("d", BulletMax + 1),
       "Same. Same. Other key. Same.",
       Rep("w ", 2 * WordsPerMinute),
       Rep("s", QuestionMax + 10) \o " is " \o Rep("longword ", 40),
       "review " \o Rep("z", TitleMax + 10) \o "\nfinish midterm prep",
       "Theorem one holds.\nRead chapter 2 before the exam.  It is what the final was made of, they are sure.",
       " \n\t" >>

(***************************************************************************)
(* The function-level specification: Init draws one call, the action of    *)
(* the called function applies it.                                         *)
(***************************************************************************)

MaxCount == 3

DefaultMaxSentences == 5

DefaultMaxPoints == 10

DefaultCount == 8

TextIndex == 1..Len(FnTexts)

FnCall(fn, text, n, parses) == [fn |-> fn, text |-> text, n |-> n, parses |-> parses]

\* max_sentences and max_points are never supplied by a caller (only the defaults
\* are used); the request's count reaches n and is any integer
FnCalls ==
    {FnCall("_simple_summarize", FnTexts[t], n, <<>>) :
        t \in TextIndex, n \in (0..MaxCount) \cup {DefaultMaxSentences}}
    \cup {FnCall("_make_exam_notes", FnTexts[t], n, <<>>) :
        t \in TextIndex, n \in (0..MaxCount) \cup {DefaultMaxPoints}}
    \cup {FnCall("_generate_flashcards", FnTexts[t], n, <<>>) :
        t \in TextIndex, n \in (-1..MaxCount) \cup {DefaultCount}}
    \cup UNION {{FnCall("_extract_tasks_and_deadlines", FnTexts[t], 0, p) :
                    p \in [1..ParseCalls(FnTexts[t]) -> ParseOutcomes]} : t \in TextIndex}

EmptyDb ==
    [studentresource |-> <<>>, summary |-> <<>>, note |-> <<>>, flashcard |-> <<>>,
     studytask |-> <<>>, studyplan |-> <<>>, doubt |-> <<>>]

NoResponse == [op |-> "none"]

NoCall == [fn |-> "none"]

InitFn ==
    /\ db = EmptyDb
    /\ nreq = 0
    /\ resp = NoResponse
    /\ call \in FnCalls
    /\ ret = None

ApplySummarize ==
    /\ call.fn = "_simple_summarize"
    /\ ret = None
    /\ ret' = Some(SimpleSummarize(call.text, call.n))
    /\ UNCHANGED <<db, nreq, resp, call>>

ApplyNotes ==
    /\ call.fn = "_make_exam_notes"
    /\ ret = None
    /\ ret' = Some(MakeExamNotes(call.text, call.n))
    /\ UNCHANGED <<db, nreq, resp, call>>

ApplyFlashcards ==
    /\ call.fn = "_generate_flashcards"
    /\ ret = None
    /\ ret' = Some(GenerateFlashcards(call.text, call.n))
    /\ UNCHANGED <<db, nreq, resp, call>>

ApplyExtractTasks ==
    /\ call.fn = "_extract_tasks_and_deadlines"
    /\ ret = None
    /\ ret' = Some(ExtractTasksAndDeadlines(call.text, call.parses))
    /\ UNCHANGED <<db, nreq, resp, call>>

NextFn ==
    \/ ApplySummarize
    \/ ApplyNotes
    \/ ApplyFlashcards
    \/ ApplyExtractTasks

SpecFn == InitFn /\ [][NextFn]_vars

(***************************************************************************)
(* The document store (database.py, not part of the sources): create and   *)
(* list, as the specification's section 6 gives them.                      *)
(***************************************************************************)

Collections ==
    {"studentresource", "summary", "note", "flashcard", "studytask", "studyplan", "doubt"}

\* the ObjectId the store gives the next document: ids are never reused
NextOid(d) ==
    Len(d.studentresource) + Len(d.summary) + Len(d.note) + Len(d.flashcard)
        + Len(d.studytask) + Len(d.studyplan) + Len(d.doubt) + 1

\* str(ObjectId)
OidStr(k) == "id" \o IntToStr(k)

\* create_document(collection, data): the store after it, and the id it returns
CreateDocument(d, coll, data) ==
    Let(NextOid(d), LAMBDA oid :
        [db |-> [d EXCEPT ![coll] = Append(@, [_id |-> oid, data |-> data])],
         id |-> OidStr(oid)])

\* get_documents(collection, filter, limit); the filters used are {} and
\* {"_id": {"$eq": None}}, which no stored document satisfies
GetDocuments(d, coll, filter, limit) ==
    LET hits == IF filter = "id_eq_none" THEN <<>> ELSE d[coll]
    IN  IF limit = None THEN hits ELSE Slice(hits, limit[1])

(***************************************************************************)
(* Request handlers: each gives the store after the request and the        *)
(* response body.                                                          *)
(***************************************************************************)

EndsWith(s, suffix) ==
    Len(s) >= Len(suffix) /\ SubSeq(s, Len(s) - Len(suffix) + 1, Len(s)) = suffix

StartsWith(s, prefix) == Prefix(s, Len(prefix)) = prefix

\* PdfReader's result is an input: pdf.ok is whether the document parses, pdf.pages
\* its pages, each Some(text) or None when extract_text raises or gives nothing usable
ExtractTextFromPdf(pdf) ==
    IF ~pdf.ok THEN ""
    ELSE LET got   == SelectSeq(pdf.pages, LAMBDA p : p # None)
             parts == [i \in 1..Len(got) |-> got[i][1]]
         IN  Strip(Join(parts, "\n"), Space)

UploadResource(d, filename, title, size, pdf) ==
    LET lower == Lower(filename)
        rtype == IF EndsWith(lower, ".pdf") THEN "pdf"
                 ELSE IF \E ext \in {".png", ".jpg", ".jpeg"} : EndsWith(lower, ext)
                      THEN "image"
                 ELSE "binary"
        content_text == IF rtype = "pdf" THEN ExtractTextFromPdf(pdf) ELSE ""
        doc == [title        |-> IF Truthy(title) THEN title[1] ELSE filename,
                type         |-> rtype,
                source_name  |-> Some(filename),
                content_text |-> content_text,
                metadata     |-> <<<<"size", size>>>>]
    IN  Let(CreateDocument(d, "studentresource", doc), LAMBDA c :
            [db   |-> c.db,
             body |-> [resource_id |-> c.id, detected_type |-> rtype,
                       chars |-> Len(content_text)]])

CreateTextResource(d, payload) ==
    LET doc == [title        |-> payload.title,
                type         |-> "text",
                source_name  |-> None,
                content_text |-> payload.text,
                metadata     |-> <<>>]
    IN  Let(CreateDocument(d, "studentresource", doc), LAMBDA c :
            [db |-> c.db, body |-> [resource_id |-> c.id, chars |-> Len(payload.text)]])

\* ScanForResource taking the first resource whatever its id: a variant C10 must
\* tell apart
ScanForResourceAny(items, resource_id, text) ==
    IF items = <<>> THEN text ELSE Some(items[1].data.content_text)

\* lines 234-237: the content_text of the first resource whose id is resource_id;
\* text stays as it was when there is none
ScanForResource(items, resource_id, text) ==
    LET hit == {i \in 1..Len(items) : OidStr(items[i]._id) = resource_id}
    IN  IF hit = {} THEN text ELSE Some(items[MinOf(hit)].data.content_text)

\* lines 228-240
SummarizeText(d, payload) ==
    LET items == GetDocuments(d, "studentresource", "id_eq_none", None)
        found == IF ~Truthy(payload.text) /\ Truthy(payload.resource_id)
                 THEN IF items = <<>>
                      THEN ScanForResource(GetDocuments(d, "studentresource", "all", None),
                                           payload.resource_id[1], payload.text)
                      ELSE Some(items[1].data.content_text)
                 ELSE payload.text
    IN  IF Truthy(found) THEN found[1] ELSE ""

Summarize(d, payload) ==
    Let(SimpleSummarize(SummarizeText(d, payload), DefaultMaxSentences), LAMBDA result :
    Let(CreateDocument(d, "summary",
                       [title            |-> "Summary",
                        resource_id      |-> payload.resource_id,
                        content          |-> result.content,
                        key_points       |-> result.key_points,
                        reading_time_min |-> Some(result.reading_time_min)]), LAMBDA c :
        [db   |-> c.db,
         body |-> [summary_id       |-> c.id,
                   content          |-> result.content,
                   key_points       |-> result.key_points,
                   reading_time_min |-> result.reading_time_min]]))

\* payload.text or ""
TextOrEmpty(payload) == IF Truthy(payload.text) THEN payload.text[1] ELSE ""

Notes(d, payload) ==
    Let(MakeExamNotes(TextOrEmpty(payload), DefaultMaxPoints), LAMBDA bullets :
    Let(CreateDocument(d, "note",
                       [title       |-> "Exam-focused Notes",
                        resource_id |-> payload.resource_id,
                        bullets     |-> bullets]), LAMBDA c :
        [db |-> c.db, body |-> [note_id |-> c.id, bullets |-> bullets]]))

\* CreateEach storing only the first document: a variant C8 must tell apart
CreateEachFirstOnly(d, coll, docs, i, ids) ==
    IF docs = <<>> THEN [db |-> d, ids |-> ids]
    ELSE Let(CreateDocument(d, coll, docs[1]), LAMBDA c :
             [db |-> c.db, ids |-> [k \in 1..Len(docs) |-> c.id]])

RECURSIVE CreateEach(_, _, _, _, _)
\* for x in docs: id = create_document(coll, x); ids.append(id)
CreateEach(d, coll, docs, i, ids) ==
    IF i > Len(docs) THEN [db |-> d, ids |-> ids]
    ELSE Let(CreateDocument(d, coll, docs[i]), LAMBDA c :
             CreateEach(c.db, coll, docs, i + 1, Append(ids, c.id)))

\* Flashcard(resource_id=..., question=c["question"], answer=c["answer"], topic=None)
FlashcardDocs(cards, resource_id) ==
    [i \in 1..Len(cards) |->
        [resource_id |-> resource_id,
         question    |-> cards[i].question,
         answer      |-> cards[i].answer,
         topic       |-> None]]

Flashcards(d, payload) ==
    Let(GenerateFlashcards(TextOrEmpty(payload),
                           IF TruthyInt(payload.count) THEN payload.count[1]
                           ELSE DefaultCount), LAMBDA cards :
    Let(FlashcardDocs(cards, payload.resource_id), LAMBDA docs :
    Let(CreateEach(d, "flashcard", docs, 1, <<>>), LAMBDA c :
        [db |-> c.db, body |-> [count |-> Len(cards), cards |-> cards, ids |-> c.ids]])))

\* dateparser.parse of an isoformat() string
ParseIso(iso) == iso[2]

\* StudyTask(title=t["title"], due_date=dateparser.parse(t["due_date"]) if ..., ...)
StudyTaskDocs(tasks) ==
    [i \in 1..Len(tasks) |->
        [title    |-> tasks[i].title,
         due_date |-> IF tasks[i].due_date # None
                      THEN Some(ParseIso(tasks[i].due_date[1])) ELSE None,
         course   |-> None,
         source   |-> Some("extracted"),
         status   |-> "todo",
         priority |-> tasks[i].priority]]

ExtractTasks(d, payload, parses) ==
    Let(ExtractTasksAndDeadlines(TextOrEmpty(payload), parses), LAMBDA tasks :
    Let(StudyTaskDocs(tasks), LAMBDA docs :
    Let(CreateEach(d, "studytask", docs, 1, <<>>), LAMBDA c :
        [db   |-> c.db,
         body |-> [tasks |-> [i \in 1..Len(tasks) |->
                                [title    |-> tasks[i].title,
                                 due_date |-> tasks[i].due_date,
                                 status   |-> tasks[i].status,
                                 priority |-> tasks[i].priority,
                                 id       |-> c.ids[i]]]]])))

DefaultObjectives == <<"Review notes", "Practice problems", "Revise key formulas">>

\* date.isoformat(); dates are days relative to the datetime.now().date() of line 289
IsoDate(day) == <<"date", day>>

\* max(1, int(len(objectives) / max(1, days)))
PerDay(objectives, days) ==
    LET q == Len(objectives) \div (IF days > 1 THEN days ELSE 1)
    IN  IF q > 1 THEN q ELSE 1

RECURSIVE PlanLoopNoCap(_, _, _, _, _, _)
\* PlanLoop without the min(day_pointer, days - 1): a variant C9 must tell apart
PlanLoopNoCap(objectives, i, day_pointer, tasks, days, per_day) ==
    IF i > Len(objectives) THEN tasks
    ELSE LET t == [title    |-> objectives[i],
                   due_date |-> IsoDate(day_pointer),
                   status   |-> "todo",
                   priority |-> "medium"]
         IN  PlanLoopNoCap(objectives, i + 1,
                           IF i % per_day = 0 THEN day_pointer + 1 ELSE day_pointer,
                           Append(tasks, t), days, per_day)

RECURSIVE PlanLoop(_, _, _, _, _, _)
\* for i, obj in enumerate(objectives), i counted from 1 here
PlanLoop(objectives, i, day_pointer, tasks, days, per_day) ==
    IF i > Len(objectives) THEN tasks
    ELSE LET due == IF day_pointer < days - 1 THEN day_pointer ELSE days - 1
             t   == [title    |-> objectives[i],
                     due_date |-> IsoDate(due),
                     status   |-> "todo",
                     priority |-> "medium"]
         IN  PlanLoop(objectives, i + 1,
                      IF i % per_day = 0 THEN day_pointer + 1 ELSE day_pointer,
                      Append(tasks, t), days, per_day)

\* PlanTasks moving to the next day every per_day + 1 objectives: a variant C2 must
\* tell apart
PlanTasksSlow(objectives, days) ==
    PlanLoop(objectives, 1, 0, <<>>, days, PerDay(objectives, days) + 1)

\* lines 284-299: the tasks of the objectives over days
PlanTasks(objectives, days) ==
    PlanLoop(objectives, 1, 0, <<>>, days, PerDay(objectives, days))

Plan(d, payload) ==
    Let(IF payload.objectives = <<>> THEN DefaultObjectives ELSE payload.objectives,
        LAMBDA objectives :
    Let(PlanTasks(objectives, payload.days), LAMBDA tasks :
    Let(CreateDocument(d, "studyplan",
                       [title          |-> payload.title,
                        objectives     |-> objectives,
                        tasks          |-> tasks,
                        timeframe_days |-> payload.days]), LAMBDA c :
        [db |-> c.db, body |-> [plan_id |-> c.id, tasks |-> tasks, days |-> payload.days]])))

ContextMax == 200

FinalAnswer ==
    "This is a heuristic explanation. For precise solutions, consult course materials."

ContextStep == "Understand the context: "

\* DoubtSteps testing "context is not None" instead of its truth value: a variant C7
\* must tell apart
DoubtStepsNotNone(q, context) ==
    (IF context # None THEN <<ContextStep \o Prefix(context[1], ContextMax)>> ELSE <<>>)
        \o <<"Restate the question: " \o q,
             "Identify knowns and unknowns",
             "Break into sub-problems and solve step-by-step",
             "Verify the result with a quick check or example">>

\* lines 307-314
DoubtSteps(q, context) ==
    (IF Truthy(context) THEN <<ContextStep \o Prefix(context[1], ContextMax)>> ELSE <<>>)
        \o <<"Restate the question: " \o q,
             "Identify knowns and unknowns",
             "Break into sub-problems and solve step-by-step",
             "Verify the result with a quick check or example">>

Doubts(d, payload) ==
    Let(Strip(payload.question, Space), LAMBDA q :
    Let(DoubtSteps(q, payload.context), LAMBDA steps :
    Let(CreateDocument(d, "doubt",
                       [question          |-> q,
                        context           |-> payload.context,
                        explanation_steps |-> steps,
                        final_answer      |-> Some(FinalAnswer)]), LAMBDA c :
        [db   |-> c.db,
         body |-> [doubt_id |-> c.id, steps |-> steps, final_answer |-> FinalAnswer]])))

\* list_flashcards, list_tasks, list_summaries, list_notes: the ids are made strings
\* in the returned copies
ListDocuments(d, coll, limit) ==
    Let(GetDocuments(d, coll, "all", Some(limit)), LAMBDA items :
        [db   |-> d,
         body |-> [items |-> [i \in 1..Len(items) |->
                                [_id |-> OidStr(items[i]._id), data |-> items[i].data]]]])

(***************************************************************************)
(* The request-level specification: any sequence of at most MaxRequests    *)
(* requests against the store.                                             *)
(***************************************************************************)

MaxRequests == 2

MaxObjectives == 4

MaxDays == 3

DefaultListLimit == 20

DefaultTaskLimit == 50

HandlerText == FnTexts[2]

TaskText == "Submit essay by Friday\nbuy milk\nPrepare for FINAL exam"

GenerateIn(resource_id, text, count) ==
    [resource_id |-> resource_id, text |-> text, count |-> count]

ResourceIds == {None, Some("id1"), Some("id2"), Some("zz")}

Uploads ==
    LET pdf == [ok |-> TRUE, pages |-> <<Some(" page one. "), None, Some("page three\n")>>]
        bad == [ok |-> FALSE, pages |-> <<>>]
    IN  {[filename |-> "Notes.PDF", title |-> None, data |-> "%PDF-1.4", pdf |-> pdf],
         [filename |-> "Notes.PDF", title |-> Some("Week 1"), data |-> "%PDF", pdf |-> bad],
         [filename |-> "pic.jpeg", title |-> Some(""), data |-> "", pdf |-> bad],
         [filename |-> "essay.docx", title |-> None, data |-> "PK", pdf |-> bad]}

ObjectiveLists ==
    {[i \in 1..k |-> "o" \o IntToStr(i)] : k \in 0..MaxObjectives}

Init ==
    /\ db = EmptyDb
    /\ nreq = 0
    /\ resp = NoResponse
    /\ call = NoCall
    /\ ret = None

\* POST /api/resources/upload
ReqUpload ==
    /\ nreq < MaxRequests
    /\ \E u \in Uploads :
         \E r \in {UploadResource(db, u.filename, u.title, Len(u.data), u.pdf)} :
             /\ db' = r.db
             /\ resp' = [op |-> "upload_resource", req |-> u, body |-> r.body]
    /\ nreq' = nreq + 1
    /\ UNCHANGED <<call, ret>>

\* POST /api/resources/text
ReqTextResource ==
    /\ nreq < MaxRequests
    /\ \E payload \in {[title |-> "Pasted", text |-> t] : t \in {"", HandlerText}} :
         \E r \in {CreateTextResource(db, payload)} :
             /\ db' = r.db
             /\ resp' = [op |-> "create_text_resource", req |-> payload, body |-> r.body]
    /\ nreq' = nreq + 1
    /\ UNCHANGED <<call, ret>>

\* POST /api/summarize
ReqSummarize ==
    /\ nreq < MaxRequests
    /\ \E payload \in {GenerateIn(rid, text, None) :
                         rid \in ResourceIds, text \in {None, Some(""), Some(HandlerText)}} :
         \E r \in {Summarize(db, payload)} :
             /\ db' = r.db
             /\ resp' = [op |-> "summarize", req |-> payload, body |-> r.body]
    /\ nreq' = nreq + 1
    /\ UNCHANGED <<call, ret>>

\* POST /api/notes
ReqNotes ==
    /\ nreq < MaxRequests
    /\ \E payload \in {GenerateIn(None, text, None) : text \in {None, Some(HandlerText)}} :
         \E r \in {Notes(db, payload)} :
             /\ db' = r.db
             /\ resp' = [op |-> "notes", req |-> payload, body |-> r.body]
    /\ nreq' = nreq + 1
    /\ UNCHANGED <<call, ret>>

\* POST /api/flashcards
ReqFlashcards ==
    /\ nreq < MaxRequests
    /\ \E payload \in {GenerateIn(None, text, count) :
                         text \in {None, Some(HandlerText)},
                         count \in {None, Some(-1), Some(0), Some(2)}} :
         \E r \in {Flashcards(db, payload)} :
             /\ db' = r.db
             /\ resp' = [op |-> "flashcards", req |-> payload, body |-> r.body]
    /\ nreq' = nreq + 1
    /\ UNCHANGED <<call, ret>>

\* POST /api/tasks/extract; parses is what dateparser.parse gives, call by call
ReqExtractTasks ==
    /\ nreq < MaxRequests
    /\ \E payload \in {GenerateIn(None, text, None) : text \in {None, Some(TaskText)}} :
         \E parses \in [1..ParseCalls(TextOrEmpty(payload))
                          -> {ParseFailed, Parsed(0, FALSE)}] :
             \E r \in {ExtractTasks(db, payload, parses)} :
                 /\ db' = r.db
                 /\ resp' = [op |-> "extract_tasks", req |-> payload, body |-> r.body]
    /\ nreq' = nreq + 1
    /\ UNCHANGED <<call, ret>>

\* POST /api/plan (daily_hours is read by nothing)
ReqPlan ==
    /\ nreq < MaxRequests
    /\ \E payload \in {[title |-> "Plan", objectives |-> objectives, days |-> days] :
                         objectives \in ObjectiveLists, days \in 1..MaxDays} :
         \E r \in {Plan(db, payload)} :
             /\ db' = r.db
             /\ resp' = [op |-> "plan", req |-> payload, body |-> r.body]
    /\ nreq' = nreq + 1
    /\ UNCHANGED <<call, ret>>

\* POST /api/doubts
ReqDoubts ==
    /\ nreq < MaxRequests
    /\ \E payload \in {[question |-> question, context |-> context] :
                         question \in {"Why?", " Why is the sky blue? "},
                         context \in {None, Some(""),
                                      Some("Chapter 3: " \o Rep("c", ContextMax))}} :
         \E r \in {Doubts(db, payload)} :
             /\ db' = r.db
             /\ resp' = [op |-> "doubts", req |-> payload, body |-> r.body]
    /\ nreq' = nreq + 1
    /\ UNCHANGED <<call, ret>>

\* GET /api/flashcards
ReqListFlashcards ==
    /\ nreq < MaxRequests
    /\ \E limit \in {1, DefaultListLimit} :
         \E r \in {ListDocuments(db, "flashcard", limit)} :
             /\ db' = r.db
             /\ resp' = [op |-> "list_flashcards", req |-> limit, body |-> r.body]
    /\ nreq' = nreq + 1
    /\ UNCHANGED <<call, ret>>

\* GET /api/tasks
ReqListTasks ==
    /\ nreq < MaxRequests
    /\ \E limit \in {1, DefaultTaskLimit} :
         \E r \in {ListDocuments(db, "studytask", limit)} :
             /\ db' = r.db
             /\ resp' = [op |-> "list_tasks", req |-> limit, body |-> r.body]
    /\ nreq' = nreq + 1
    /\ UNCHANGED <<call, ret>>

\* GET /api/summaries
ReqListSummaries ==
    /\ nreq < MaxRequests
    /\ \E limit \in {1, DefaultListLimit} :
         \E r \in {ListDocuments(db, "summary", limit)} :
             /\ db' = r.db
             /\ resp' = [op |-> "list_summaries", req |-> limit, body |-> r.body]
    /\ nreq' = nreq + 1
    /\ UNCHANGED <<call, ret>>

\* GET /api/notes
ReqListNotes ==
    /\ nreq < MaxRequests
    /\ \E limit \in {1, DefaultListLimit} :
         \E r \in {ListDocuments(db, "note", limit)} :
             /\ db' = r.db
             /\ resp' = [op |-> "list_notes", req |-> limit, body |-> r.body]
    /\ nreq' = nreq + 1
    /\ UNCHANGED <<call, ret>>

Next ==
    \/ ReqUpload
    \/ ReqTextResource
    \/ ReqSummarize
    \/ ReqNotes
    \/ ReqFlashcards
    \/ ReqExtractTasks
    \/ ReqPlan
    \/ ReqDoubts
    \/ ReqListFlashcards
    \/ ReqListTasks
    \/ ReqListSummaries
    \/ ReqListNotes

Spec == Init /\ [][Next]_vars
(***************************************************************************)
(* The claims.  C1, C3, C4, C5 and C6 are about the functions (SpecFn);    *)
(* C2, C7, C8, C9 and C10 are about the requests (Spec).                   *)
(***************************************************************************)

\* the call of fn has returned
Returned(fn) == call.fn = fn /\ ret # None

CardsFilled(cards) ==
    \A i \in 1..Len(cards) : cards[i].question # "" /\ cards[i].answer # ""

\* C1 as stated: for every text and every requested count n, _generate_flashcards
\* returns exactly n cards, each with a non-empty question and a non-empty answer.
C1_ExactlyNCards ==
    Returned("_generate_flashcards") =>
        /\ Len(ret[1]) = call.n
        /\ CardsFilled(ret[1])

\* C1 as amended: for every text and every count n >= 0, _generate_flashcards returns
\* exactly n cards, each with a non-empty question and a non-empty answer; for n < 0
\* it returns no card.
C1_ExactlyNCardsFromZero ==
    Returned("_generate_flashcards") =>
        /\ Len(ret[1]) = (IF call.n >= 0 THEN call.n ELSE 0)
        /\ CardsFilled(ret[1])

\* C1's case: a call padded to n cards, an extracted card first and a filler card last
C1_Witness ==
    /\ Returned("_generate_flashcards")
    /\ call.n = MaxCount
    /\ Len(ret[1]) = MaxCount
    /\ StartsWith(ret[1][1].question, "What is ")
    /\ StartsWith(ret[1][MaxCount].question, "Key point ")

\* C3: every bullet _make_exam_notes returns, from the line filter or from the
\* sentence fallback, is at most 180 characters long, ellipsis included.
C3_BulletsAtMost180 ==
    Returned("_make_exam_notes") =>
        \A i \in 1..Len(ret[1]) : Len(ret[1][i]) <= BulletMax

\* C4: the key_points of _simple_summarize are at most max_sentences, and each is at
\* most 200 characters long.
C4_KeyPointsBounded ==
    Returned("_simple_summarize") =>
        /\ Len(ret[1].key_points) <= call.n
        /\ \A i \in 1..Len(ret[1].key_points) : Len(ret[1].key_points[i]) <= KeyPointMax

\* C4's case: max_sentences key points are returned out of more sentences, one of
\* them cut to 200 characters
C4_Witness ==
    /\ Returned("_simple_summarize")
    /\ call.n >= 1
    /\ Len(ret[1].key_points) = call.n
    /\ Len(StrippedSentences(call.text)) > call.n
    /\ \E i \in 1..Len(ret[1].key_points) :
          /\ Len(ret[1].key_points[i]) = KeyPointMax
          /\ EndsWith(ret[1].key_points[i], "...")

\* C5: every line with an action verb gives a task, whatever the date parse does;
\* the task's due_date is absent whenever the parse fails or gives a date more than
\* one day before now, and is present only when the parse succeeds with a date no
\* older than now minus one day.
C5_StaleOrUnparsedDateIsAbsent ==
    Returned("_extract_tasks_and_deadlines") =>
        /\ Len(ret[1]) = Len(call.parses)
        /\ \A k \in 1..Len(ret[1]) :
              LET o == call.parses[k]
              IN  /\ (~o.ok \/ o.at < 0 - OneDay) => ret[1][k].due_date = None
                  /\ ret[1][k].due_date # None => (o.ok /\ o.at >= 0 - OneDay)

\* C5's case: three tasks, of a failed parse, of a stale date (both without a due
\* date) and of a date exactly one day old (kept)
C5_Witness ==
    /\ Returned("_extract_tasks_and_deadlines")
    /\ Len(ret[1]) = 3
    /\ ~call.parses[1].ok /\ ret[1][1].due_date = None
    /\ call.parses[2] = Parsed(0 - OneDay - 1, FALSE) /\ ret[1][2].due_date = None
    /\ call.parses[3] = Parsed(0 - OneDay, FALSE) /\ ret[1][3].due_date # None

\* the lines of text, stripped, that are not blank and hold an action verb
VerbLines(text) ==
    LET lines == SplitLines(text)
        idx   == {i \in 1..Len(lines) :
                    /\ Strip(lines[i], Space) # ""
                    /\ \E v \in ActionVerbs : Contains(Lower(lines[i]), v)}
    IN  [k \in 1..Cardinality(idx) |->
            Strip(lines[CHOOSE i \in idx : Cardinality({j \in idx : j <= i}) = k], Space)]

\* C6: _extract_tasks_and_deadlines emits one task per non-blank line holding an
\* action verb, in line order, each with status "todo" and with priority "high" if
\* the line mentions exam, midterm or final in any case, "medium" otherwise.
C6_OneTaskPerVerbLine ==
    Returned("_extract_tasks_and_deadlines") =>
        LET lines == VerbLines(call.text)
        IN  /\ Len(ret[1]) = Len(lines)
            /\ \A k \in 1..Len(lines) :
                  /\ ret[1][k].title = Prefix(lines[k], TitleMax)
                  /\ ret[1][k].status = "todo"
                  /\ ret[1][k].priority =
                        (IF \E w \in ExamWords : Contains(Lower(lines[k]), w)
                         THEN "high" ELSE "medium")

\* C6's case: a text with more lines than tasks, whose tasks are of both priorities
C6_Witness ==
    /\ Returned("_extract_tasks_and_deadlines")
    /\ Len(SplitLines(call.text)) > Len(ret[1])
    /\ \E j, k \in 1..Len(ret[1]) :
          j < k /\ ret[1][j].priority = "medium" /\ ret[1][k].priority = "high"

\* the due dates of the tasks of a plan response, in days after today
DueDays(tasks) == [i \in 1..Len(tasks) |-> tasks[i].due_date[2]]

ThreeInThree == resp.op = "plan" /\ Len(resp.req.objectives) = 3 /\ resp.req.days = 3

\* C2 as stated: a plan of three objectives over 3 days has exactly 3 tasks, due
\* today, today and today + 1.
C2_ThreeObjectivesThreeDays ==
    ThreeInThree => DueDays(resp.body.tasks) = <<0, 0, 1>>

\* C2 as amended: a plan of three objectives over 3 days has exactly 3 tasks, due
\* today, today + 1 and today + 2.
C2_ThreeObjectivesOnePerDay ==
    ThreeInThree => DueDays(resp.body.tasks) = <<0, 1, 2>>

\* C2's case: the response to such a plan request
C2_Witness == ThreeInThree /\ Len(resp.body.tasks) = 3

\* C7: the doubt explainer gives 4 steps, none of them the context step, when the
\* context is absent or empty, and 5 steps with the context step first otherwise;
\* the steps are never empty and final_answer is the fixed disclaimer.
C7_DoubtStepsShape ==
    resp.op = "doubts" =>
        LET steps == resp.body.steps
            given == resp.req.context # None /\ resp.req.context[1] # ""
        IN  /\ steps # <<>>
            /\ resp.body.final_answer =
                  "This is a heuristic explanation. For precise solutions, consult course materials."
            /\ ~given =>
                  /\ Len(steps) = 4
                  /\ \A i \in 1..4 : ~StartsWith(steps[i], "Understand the context")
            /\ given =>
                  /\ Len(steps) = 5
                  /\ StartsWith(steps[1], "Understand the context")
                  /\ \A i \in 2..5 : ~StartsWith(steps[i], "Understand the context")

\* C7's case: two doubts answered, one with an empty context (4 steps stored) and one
\* with a context (5 steps stored)
C7_Witness ==
    /\ resp.op = "doubts"
    /\ Len(db.doubt) = 2
    /\ db.doubt[1].data.context = Some("") /\ Len(db.doubt[1].data.explanation_steps) = 4
    /\ Len(resp.body.steps) = 5

\* the documents a step adds to a collection
Added(c) == Len(db'[c]) - Len(db[c])

\* what was stored stays stored, unchanged and in place
Kept == \A c \in Collections : Len(db'[c]) >= Len(db[c]) /\ SubSeq(db'[c], 1, Len(db[c])) = db[c]

\* the collection a request writes to, and how many documents its response stands for
Writes(r) ==
    CASE r.op = "upload_resource"      -> <<"studentresource", 1>>
      [] r.op = "create_text_resource" -> <<"studentresource", 1>>
      [] r.op = "summarize"            -> <<"summary", 1>>
      [] r.op = "notes"                -> <<"note", 1>>
      [] r.op = "plan"                 -> <<"studyplan", 1>>
      [] r.op = "doubts"               -> <<"doubt", 1>>
      [] r.op = "flashcards"           -> <<"flashcard", Len(r.body.cards)>>
      [] r.op = "extract_tasks"        -> <<"studytask", Len(r.body.tasks)>>
      [] OTHER                         -> <<"none", 0>>

\* C8: the store is append-only.  Every request creates one document per entity it
\* generates (one per returned card, with as many ids as cards; one per extracted
\* task; one for summarize, notes, plan, doubt and resource ingestion), list requests
\* create nothing, and no request changes or removes a stored document.
C8_AppendOnly ==
    [][ /\ Kept
        /\ \A c \in Collections :
              Added(c) = (IF c = Writes(resp')[1] THEN Writes(resp')[2] ELSE 0)
        /\ resp'.op = "flashcards" => Len(resp'.body.ids) = Len(resp'.body.cards)
      ]_vars

\* C8's case: a flashcards request for two cards on a store that holds documents
C8_Witness ==
    /\ nreq = 2
    /\ resp.op = "flashcards"
    /\ Len(resp.body.cards) = 2
    /\ Len(db.flashcard) = 2
    /\ NextOid(db) > 3

\* C9: for days >= 1 the plan has one task per objective, in order (the three default
\* objectives for an empty list; the stored plan has as many tasks as objectives), and
\* the due dates start today, never decrease and never pass today + days - 1.
C9_PlanDueDates ==
    (resp.op = "plan" /\ resp.req.days >= 1) =>
        LET objectives == IF resp.req.objectives = <<>>
                          THEN <<"Review notes", "Practice problems", "Revise key formulas">>
                          ELSE resp.req.objectives
            tasks  == resp.body.tasks
            due    == DueDays(tasks)
            stored == db.studyplan[Len(db.studyplan)].data
        IN  /\ Len(tasks) = Len(objectives)
            /\ \A i \in 1..Len(tasks) : tasks[i].title = objectives[i]
            /\ Len(stored.tasks) = Len(stored.objectives)
            /\ stored.objectives = objectives
            /\ due[1] = 0
            /\ \A i \in 1..(Len(due) - 1) : due[i] <= due[i + 1]
            /\ \A i \in 1..Len(due) : due[i] <= resp.req.days - 1

\* C9's case: more objectives than days, so that the last due dates meet the cap
C9_Witness ==
    /\ resp.op = "plan"
    /\ resp.req.days = 2
    /\ DueDays(resp.body.tasks) = <<0, 1, 1>>

\* the stored resources whose id, as a string, is rid
Matching(rid) ==
    {i \in 1..Len(db.studentresource) : OidStr(db.studentresource[i]._id) = rid}

\* C10: a summarize request with no text and a resource_id that matches no stored
\* resource summarizes the empty text (empty content, no key points, reading time 1)
\* and stores exactly one summary; when the resource_id matches a stored resource,
\* that resource's content_text is what is summarized.
C10_SummarizeByResource ==
    [][ (/\ resp'.op = "summarize"
         /\ resp'.req.text \in {None, Some("")}
         /\ resp'.req.resource_id # None) =>
            LET body == resp'.body
                hit  == Matching(resp'.req.resource_id[1])
                of(text) == SimpleSummarize(text, DefaultMaxSentences)
            IN  /\ Added("summary") = 1
                /\ hit = {} =>
                      /\ body.content = ""
                      /\ body.key_points = <<>>
                      /\ body.reading_time_min = 1
                /\ \A i \in hit :
                      LET text == db.studentresource[i].data.content_text
                      IN  /\ body.content = of(text).content
                          /\ body.key_points = of(text).key_points
                          /\ body.reading_time_min = of(text).reading_time_min
      ]_vars

\* C10's case: the store holds a resource, and the request names another
C10_Witness ==
    /\ resp.op = "summarize"
    /\ resp.req.text = None
    /\ resp.req.resource_id # None
    /\ db.studentresource # <<>>
    /\ db.studentresource[1].data.content_text # ""
    /\ Matching(resp.req.resource_id[1]) = {}
    /\ resp.body.content = ""
    /\ Len(db.summary) = 1
====
